---- MODULE Spec2Model ----
(***************************************************************************)
(* The experiment execution engine of llm_experiment_lab: the Model Run    *)
(* Coordinator (core/experiment.py), the Completion Client's streaming     *)
(* call and its cancellation flag (api/client.py) and the Evaluator's      *)
(* streaming entry point (core/evaluator.py).                              *)
(*                                                                         *)
(* Spec follows the coordinator's operations with the invocations they     *)
(* make on the shared client; ClientSpec follows one invocation of the     *)
(* client, buffered or streamed, line by line and field by field; FnSpec   *)
(* applies the engine's functions (payload builder, error message,         *)
(* endpoint resolver, model listing, judge prompt) to inputs drawn from    *)
(* small sets.                                                             *)
(*                                                                         *)
(* Threads: the coordinator's operations and each evaluation run inside    *)
(* their own worker thread and event loop; cancel() is called from another *)
(* thread (the GUI's) and can fall between any two steps.                  *)
(***************************************************************************)
EXTENDS Integers, Sequences, FiniteSets, TLC

(* ------------------------------ bounds --------------------------------- *)

\* Longest list of model configs handed to one operation.
MaxModels == 2

\* Most data lines one streamed response delivers before it ends.
MaxLines == 2

\* Most lines of one streamed response when the stream is followed line by
\* line, field by field.
MaxStreamLines == 3

(* ------------------------------ values --------------------------------- *)

\* ModelConfig.name values.
Names == {"m1", "m2"}

\* Judge calls running on the shared client (Evaluator.evaluate_stream).
EvalCalls == {<<"eval", 1>>, <<"eval", 2>>}

SlotIds == 1..(MaxModels)

\* The invocation made by slot i of the running operation.
SlotCall(i) == <<"slot", i>>

Callers == {SlotCall(i) : i \in SlotIds} \cup EvalCalls

\* Python's None for an Optional[str].
None == "None"

\* Content carried by a well-formed chunk.
Chunks == {"a", "b"}

\* What one line of the response body can be: a chunk with content,
\* `data: [DONE]`, or a line the parser skips (blank, no `data: ` prefix,
\* malformed JSON, no choices).
LineKinds == Chunks \cup {"done", "skip"}

\* What the transport can answer to the POST.
HeaderOutcomes == {"ok", "status_error", "transport_error"}

ExcMultipleValues == "chat_completion_stream() got multiple values for argument 'stop'"

ExcUnexpectedKeyword == "ModelStats.__init__() got an unexpected keyword argument 'reasoning'"

ExcTooManyPositional == "takes fewer positional arguments"

ExcTransport == "transport error"

ExcAttribute == "'NoneType' object has no attribute 'get'"

ExcJoin == "sequence item: expected str instance, NoneType found"

ExcCallback == "on_chunk failed"

\* usage objects: <<prompt_tokens, completion_tokens>> with total_tokens as
\* a third entry when the provider sends it, <<>> when there is no usage.
NoUsage == <<>>

\* One line of a streamed body as the parser sees it.
Line(kind, content, reasoning, usage) ==
  [kind |-> kind, content |-> content, reasoning |-> reasoning,
   usage |-> usage]

\* The lines a provider can send: a blank or non-`data: ` line, `data: [DONE]`,
\* a payload that is not JSON, a JSON object with no choices (with its
\* usage, as in the closing chunk of a stream asked to include usage), JSON
\* of another shape (not an object, a null delta, a null usage), and chunks
\* whose delta carries text, reasoning, `"content": null` next to
\* reasoning, nothing, and usage.
StreamLines ==
  { Line("blank", "", "", NoUsage),
    Line("done", "", "", NoUsage),
    Line("malformed", "", "", NoUsage),
    Line("no_choices", "", "", <<1, 2>>),
    Line("bad_shape", "", "", NoUsage),
    Line("chunk", "a", "", NoUsage),
    Line("chunk", "b", "", NoUsage),
    Line("chunk", "", "r", NoUsage),
    Line("chunk", None, "r", NoUsage),
    Line("chunk", "", "", NoUsage),
    Line("chunk", "", "", <<2, 1>>),
    Line("chunk", "a", "", <<1, 2>>) }

\* How the transport can fail under an await: an exception, or the task's
\* CancelledError.
FailKinds == {"exception", "cancelled_error"}

\* What the await of the stream's response headers can end with.
HeaderKinds == {"ok", "status_error"} \cup FailKinds

\* What the buffered POST can end with.
Outcome(kind, content, usage) ==
  [kind |-> kind, content |-> content, usage |-> usage]

NoBody == Outcome("none", "", NoUsage)

\* A 2xx response: a body with one message (its content text or null) and
\* a usage object, or a body of another shape (no choices, a null usage).
Bodies ==
  {Outcome("message", c, u) :
     c \in {"", "a", "ab", "ba", None},
     u \in {NoUsage, <<1, 2>>, <<1, 2, 3>>, <<2, 1, 3>>}}
    \cup {Outcome("bad_shape", "", NoUsage)}

\* A response, a non-2xx status, or a failure of the await.
BufferedOutcomes ==
  Bodies \cup {Outcome(k, "", NoUsage) : k \in {"status_error"} \cup FailKinds}

\* The on_chunk argument: not given, a callback that returns, one that raises.
OnChunkKinds == {"none", "ok", "raises"}

(* ----------------------- Python call binding --------------------------- *)

\* The fields of the ModelStats dataclass, i.e. the keywords its generated
\* __init__ accepts.
ModelStatsFields ==
  {"model_name", "response_time", "prompt_tokens", "completion_tokens",
   "total_tokens", "content", "raw_request", "raw_response", "timestamp",
   "error"}

\* The keywords with which the coordinator constructs every ModelStats.
ModelStatsKwargs ==
  {"model_name", "response_time", "prompt_tokens", "completion_tokens",
   "total_tokens", "content", "reasoning", "raw_request", "raw_response",
   "error"}

\* The parameters of chat_completion_stream after self, in order.
StreamParams ==
  <<"model", "system_prompt", "user_prompt", "temperature", "top_p", "top_k",
    "endpoint_id", "stop", "max_tokens", "frequency_penalty",
    "presence_penalty", "on_chunk">>

\* The coordinator's call passes this many positional arguments
\* (name, system prompt, user prompt, temperature, top_p, top_k,
\* custom_endpoint, custom_api_token) ...
RunModelPositional == 8

\* ... and these keyword arguments (on_chunk only with a progress callback).
RunModelKeywords(with_cb) ==
  {"stop", "max_tokens", "frequency_penalty", "presence_penalty"}
    \cup (IF with_cb THEN {"on_chunk"} ELSE {})

\* The Evaluator passes every argument by keyword.
EvaluatorKeywords ==
  {"model", "system_prompt", "user_prompt", "temperature", "top_p", "top_k",
   "endpoint_id", "on_chunk"}

\* Python's argument binding: None when the call is accepted, else the
\* TypeError it raises before the callee's body runs.
BindCall(params, npos, kws) ==
  IF npos > Len(params) THEN ExcTooManyPositional
  ELSE IF \E i \in 1..npos : params[i] \in kws THEN ExcMultipleValues
  ELSE IF \E k \in kws : \A i \in 1..Len(params) : params[i] # k
       THEN ExcUnexpectedKeyword
  ELSE None

\* A dataclass __init__ called with keywords only: None, or the TypeError.
DataclassInit(fields, kws) ==
  IF kws \subseteq fields THEN None ELSE ExcUnexpectedKeyword

\* ModelStats(...) as the coordinator writes it.
ModelStatsInit == DataclassInit(ModelStatsFields, ModelStatsKwargs)

\* self.client.chat_completion_stream(...) as _run_model writes it.
RunModelBind(with_cb) ==
  BindCall(StreamParams, RunModelPositional, RunModelKeywords(with_cb))

\* self.client.chat_completion_stream(...) as evaluate_stream writes it.
EvaluatorBind == BindCall(StreamParams, 0, EvaluatorKeywords)

(* ------------------------------- state --------------------------------- *)

VARIABLES
  is_cancelled,   \* Experiment._is_cancelled
  cancel_event,   \* LLMAPIClient._cancel_event
  cancel_pc,      \* the thread inside Experiment.cancel(): "idle" or "propagate"
  mode,           \* the coordinator operation in progress, or "idle"
  models,         \* its list of ModelConfig names
  delay,          \* run_sequential's delay
  with_cb,        \* whether progress_callback and complete_callback were given
  opc,            \* where the operation stands
  idx,            \* run_sequential's loop index (1-based)
  slots,          \* one record per model slot of the operation
  results,        \* the list the operation returns
  exc,            \* the exception the operation raises, or None
  slept,          \* the indices after which run_sequential slept
  cancel_before,  \* cancel() ran before this operation began
  cancel_during,  \* cancel() ran since this operation began
  calls,          \* one record per chat_completion_stream invocation
  inv,            \* one client invocation seen line by line, field by field
  app             \* the last application of one of the engine's functions

vars ==
  <<is_cancelled, cancel_event, cancel_pc, mode, models, delay, with_cb, opc,
    idx, slots, results, exc, slept, cancel_before, cancel_during, calls,
    inv, app>>

expVars ==
  <<mode, models, delay, with_cb, opc, idx, slots, results, exc, slept>>

\* ModelResponse / ModelStats: the fields the coordinator and its callers read.
NoResult == [model_name |-> None, content |-> <<>>, error |-> "no result"]

Response(content, error) ==
  [model_name |-> None, content |-> content, error |-> error]

IdleCall ==
  [pc |-> "idle", acc |-> <<>>, nlines |-> 0, done_receiving |-> FALSE,
   closed |-> FALSE, chunks_out |-> <<>>, result |-> NoResult,
   requested |-> FALSE, pending |-> FALSE, late |-> FALSE, requests |-> 0]

\* ModelResponse as the client builds it.
ModelResponse(content, prompt_tokens, completion_tokens, total_tokens, reasoning, error) ==
  [content |-> content, prompt_tokens |-> prompt_tokens,
   completion_tokens |-> completion_tokens, total_tokens |-> total_tokens,
   reasoning |-> reasoning, error |-> error]

NoResponse == ModelResponse("", 0, 0, 0, None, "no result")

\* The locals of one invocation of chat_completion or chat_completion_stream,
\* with what it was given (on_chunk, lines, body), how the flag stood when
\* it was entered, how its body ended and what came of it (response, exc).
IdleInv ==
  [fn |-> "idle", pc |-> "idle", flag_on_entry |-> FALSE,
   on_chunk |-> "none", lines |-> <<>>,
   body |-> NoBody, accumulated_content |-> <<>>,
   accumulated_reasoning |-> <<>>, total_completion_tokens |-> 0,
   prompt_tokens_from_stream |-> 0, done_receiving |-> FALSE,
   cancelled |-> FALSE, delivered |-> <<>>, closed |-> FALSE,
   ending |-> "none", response |-> NoResponse, exc |-> None]

\* No function applied yet.
NoApp == [fn |-> "none"]

NewSlot ==
  [pc |-> "pending", skipped |-> FALSE, result |-> NoResult, exc |-> None,
   events |-> <<>>, hit |-> FALSE]

Init ==
  /\ is_cancelled = FALSE
  /\ cancel_event = FALSE
  /\ cancel_pc = "idle"
  /\ mode = "idle"
  /\ models = <<>>
  /\ delay = 0
  /\ with_cb = FALSE
  /\ opc = "idle"
  /\ idx = 0
  /\ slots = <<>>
  /\ results = <<>>
  /\ exc = None
  /\ slept = {}
  /\ cancel_before = FALSE
  /\ cancel_during = FALSE
  /\ calls = [c \in Callers |-> IdleCall]
  /\ inv = IdleInv
  /\ app = NoApp

(* ------------------------ the cancellation flag ------------------------ *)

\* _cancel_event.set(), seen from every invocation: an invocation in flight
\* was requested to cancel and has that request pending; one whose body has
\* ended (the loop is left, the result not yet built) got it late.
SetEvent(cs) ==
  [c \in Callers |->
     [cs[c] EXCEPT !.requested = @ \/ cs[c].pc \in {"connecting", "reading"},
                   !.pending = @ \/ cs[c].pc \in {"connecting", "reading"},
                   !.late = @ \/ cs[c].pc = "closing"]]

\* _cancel_event.clear(): no request is pending any more.
ClearEvent(cs) == [c \in Callers |-> [cs[c] EXCEPT !.pending = FALSE]]

SlotHit(ss) ==
  [i \in DOMAIN ss |->
     [ss[i] EXCEPT !.hit = @ \/ ss[i].pc \in {"running", "calling"}]]

\* cancel_request() with set() taken for a toggle.
CancelRequestToggle(event) == ~event

\* LLMAPIClient.cancel_request(): self._cancel_event.set(), the value the
\* event takes.
CancelRequest(event) == TRUE

\* Experiment.cancel(), first statement: self._is_cancelled = True.
ExperimentCancel ==
  /\ cancel_pc = "idle"
  /\ cancel_pc' = "propagate"
  /\ is_cancelled' = TRUE
  /\ slots' = SlotHit(slots)
  /\ cancel_before' = (cancel_before \/ mode = "idle")
  /\ cancel_during' = (cancel_during \/ mode # "idle")
  /\ UNCHANGED <<cancel_event, mode, models, delay, with_cb, opc, idx,
                 results, exc, slept, calls>>
  /\ UNCHANGED <<inv, app>>

\* Experiment.cancel(), second statement: self.client.cancel_request().
CancelPropagate ==
  /\ cancel_pc = "propagate"
  /\ cancel_pc' = "idle"
  /\ cancel_event' = CancelRequest(cancel_event)
  /\ calls' = SetEvent(calls)
  /\ UNCHANGED <<is_cancelled, cancel_before, cancel_during>>
  /\ UNCHANGED expVars
  /\ UNCHANGED <<inv, app>>

\* Evaluator.cancel() -> LLMAPIClient.cancel() -> cancel_request().
EvaluatorCancel ==
  /\ \E e \in EvalCalls : calls[e].pc # "idle"
  /\ cancel_event' = CancelRequest(cancel_event)
  /\ calls' = SetEvent(calls)
  /\ UNCHANGED <<is_cancelled, cancel_pc, cancel_before, cancel_during>>
  /\ UNCHANGED expVars
  /\ UNCHANGED <<inv, app>>

(* --------------------- _run_model after the call ----------------------- *)

\* _run_model once the client call has returned `response`: cancellation
\* overrides the response, the ModelStats is built, the terminal progress
\* status and the complete callback are delivered, the stats returned.
RunModelTail(slot, name, response, cancelled, cb) ==
  LET resp == IF cancelled /\ response.error # "Cancelled"
              THEN [response EXCEPT !.error = "Cancelled", !.content = <<>>]
              ELSE response
      status == IF resp.error # None THEN "error" ELSE "completed"
  IN IF ModelStatsInit # None
     THEN [slot EXCEPT !.pc = "raised", !.exc = ModelStatsInit]
     ELSE [slot EXCEPT
             !.pc = "returned",
             !.result = [model_name |-> name, content |-> resp.content,
                         error |-> resp.error],
             !.events = IF cb THEN @ \o <<status, "complete">> ELSE @]

\* on_chunk as _run_model defines it: progress_callback(index, "streaming", ...).
RunModelOnChunk(slot) == [slot EXCEPT !.events = Append(@, "streaming")]

(* ---------------------- chat_completion_stream ------------------------- *)

\* The invocation starts: the request is built, the flag is cleared and the
\* POST is sent; the caller waits for the response headers.
StreamBegin(cs, c) ==
  [ClearEvent(cs) EXCEPT ![c] = [IdleCall EXCEPT !.pc = "connecting",
                                                 !.requests = 1]]

Returned(call, content, error) ==
  [call EXCEPT !.pc = "returned", !.result = Response(content, error)]

\* The response headers arrive, or the transport fails before they do.
HeadersStep(call, h, flag) ==
  IF h = "transport_error" THEN Returned(call, call.acc, "transport error")
  ELSE IF flag THEN Returned(call, <<>>, "Cancelled")
  ELSE IF h = "status_error" THEN Returned(call, <<>>, "HTTP error")
  ELSE [call EXCEPT !.pc = "reading"]

\* LineStep without its look at the flag: every line is parsed.
LineStepUnchecked(call, l, flag) ==
  IF l = "skip" THEN [call EXCEPT !.nlines = @ + 1]
  ELSE IF l = "done"
       THEN [call EXCEPT !.nlines = @ + 1, !.done_receiving = TRUE]
  ELSE [call EXCEPT !.nlines = @ + 1, !.acc = Append(@, l),
                    !.chunks_out = Append(@, l)]

\* One line of the body: the flag is checked first, then the line is parsed.
LineStep(call, l, flag) ==
  IF flag
  THEN [Returned(call, call.acc, "Cancelled") EXCEPT !.nlines = @ + 1,
                                                     !.closed = TRUE]
  ELSE IF l = "skip" THEN [call EXCEPT !.nlines = @ + 1]
  ELSE IF l = "done"
       THEN [call EXCEPT !.nlines = @ + 1, !.done_receiving = TRUE]
  ELSE [call EXCEPT !.nlines = @ + 1, !.acc = Append(@, l),
                    !.chunks_out = Append(@, l)]

\* The body ends: the loop is left and the response closed.
EofStep(call) == [call EXCEPT !.pc = "closing", !.closed = TRUE]

\* The transport fails while the body is read.
FailStepRetry(call) ==
  [call EXCEPT !.pc = "connecting", !.requests = @ + 1]

FailStep(call) ==
  [Returned(call, call.acc, "transport error") EXCEPT !.closed = TRUE]

\* After the loop: the result is built from what was accumulated.
ReturnStep(call) ==
  IF ~call.done_receiving
  THEN Returned(call, call.acc, "Stream ended unexpectedly")
  ELSE Returned(call, call.acc, None)

\* The invocation of caller c moves to `call`; a slot's _run_model goes on
\* where it awaited: with on_chunk when a chunk was delivered, with its tail
\* when the call returned.
Deliver(c, call) ==
  /\ calls' = [calls EXCEPT ![c] = call]
  /\ slots' =
       IF c[1] = "slot" /\ c[2] \in DOMAIN slots /\ slots[c[2]].pc = "calling"
       THEN IF call.pc = "returned"
            THEN [slots EXCEPT ![c[2]] =
                    RunModelTail(@, models[c[2]], call.result, is_cancelled,
                                 with_cb)]
            ELSE IF with_cb /\ Len(call.chunks_out) > Len(calls[c].chunks_out)
            THEN [slots EXCEPT ![c[2]] = RunModelOnChunk(@)]
            ELSE slots
       ELSE slots
  /\ UNCHANGED <<is_cancelled, cancel_event, cancel_pc, mode, models, delay,
                 with_cb, opc, idx, results, exc, slept, cancel_before,
                 cancel_during>>
  /\ UNCHANGED <<inv, app>>

StreamHeaders(c, h) ==
  /\ calls[c].pc = "connecting"
  /\ Deliver(c, HeadersStep(calls[c], h, cancel_event))

StreamLine(c, l) ==
  /\ calls[c].pc = "reading"
  /\ calls[c].nlines < MaxLines
  /\ Deliver(c, LineStep(calls[c], l, cancel_event))

StreamEof(c) ==
  /\ calls[c].pc = "reading"
  /\ Deliver(c, EofStep(calls[c]))

StreamFail(c) ==
  /\ calls[c].pc = "reading"
  /\ Deliver(c, FailStep(calls[c]))

StreamReturn(c) ==
  /\ calls[c].pc = "closing"
  /\ Deliver(c, ReturnStep(calls[c]))

(* ------------------------ Evaluator.evaluate_stream -------------------- *)

\* reset_cancel(), then the client's streaming call. Evaluations are numbered
\* in the order they are started.
EvaluateStream(e) ==
  /\ calls[e].pc = "idle"
  /\ mode = "idle"
  /\ \A d \in EvalCalls : d[2] < e[2] => calls[d].pc # "idle"
  /\ cancel_event' = FALSE
  /\ calls' = IF EvaluatorBind = None
              THEN StreamBegin(calls, e)
              ELSE [ClearEvent(calls) EXCEPT
                      ![e] = [Returned(@, <<>>, EvaluatorBind) EXCEPT !.pc = "raised"]]
  /\ UNCHANGED <<is_cancelled, cancel_pc, cancel_before, cancel_during>>
  /\ UNCHANGED expVars
  /\ UNCHANGED <<inv, app>>

(* ------------------------------ Experiment ----------------------------- *)

Finished(slot) == slot.pc \in {"returned", "raised"}

\* A task of the event loop runs until it awaits: no other task of the same
\* loop runs while one is between two awaits.
LoopFree(i) == \A j \in DOMAIN slots : j # i => slots[j].pc # "running"

\* reset_cancel() leaving the flag as it is.
ResetCancelKept == is_cancelled

\* reset_cancel(): the value self._is_cancelled takes.
ResetCancel == FALSE

\* The operation begins with `ms`: fresh slots, fresh invocations.
Begin(m, ms, d, cb) ==
  /\ mode = "idle"
  /\ \A e \in EvalCalls : calls[e].pc = "idle"
  /\ mode' = m
  /\ models' = ms
  /\ delay' = d
  /\ with_cb' = cb
  /\ slots' = [i \in 1..Len(ms) |-> NewSlot]
  /\ results' = <<>>
  /\ exc' = None
  /\ slept' = {}
  /\ cancel_during' = (cancel_pc = "propagate")
  /\ UNCHANGED <<cancel_event, cancel_pc, cancel_before, calls>>
  /\ UNCHANGED <<inv, app>>

\* run_single(system_prompt, user_prompt, model, ...): straight to _run_model.
RunSingle(name, cb) ==
  /\ Begin("single", <<name>>, 0, cb)
  /\ opc' = "active"
  /\ idx' = 1
  /\ UNCHANGED is_cancelled

\* run_parallel: reset_cancel(), one task per config, gather.
RunParallel(ms, cb) ==
  /\ Begin("parallel", ms, 0, cb)
  /\ is_cancelled' = ResetCancel
  /\ opc' = "active"
  /\ idx' = 0

\* run_sequential: reset_cancel(), then the loop.
RunSequential(ms, d, cb) ==
  /\ Begin("sequential", ms, d, cb)
  /\ is_cancelled' = ResetCancel
  /\ opc' = "head"
  /\ idx' = 1

\* _run_model begins: the cancellation check, else progress "running".
RunModelStart(i) ==
  /\ opc = "active"
  /\ i \in DOMAIN slots
  /\ slots[i].pc = "pending"
  /\ mode = "sequential" => i = idx
  /\ \A j \in 1..(i - 1) : slots[j].pc # "pending"
  /\ LoopFree(i)
  /\ slots' =
       [slots EXCEPT ![i] =
          IF is_cancelled
          THEN IF ModelStatsInit # None
               THEN [@ EXCEPT !.pc = "raised", !.skipped = TRUE,
                              !.exc = ModelStatsInit]
               ELSE [@ EXCEPT !.pc = "returned", !.skipped = TRUE,
                              !.result = [model_name |-> models[i],
                                          content |-> <<>>,
                                          error |-> "Cancelled"]]
          ELSE [@ EXCEPT !.pc = "running",
                         !.events = IF with_cb THEN Append(@, "running") ELSE @]]
  /\ UNCHANGED <<is_cancelled, cancel_event, cancel_pc, mode, models, delay,
                 with_cb, opc, idx, results, exc, slept, cancel_before,
                 cancel_during, calls>>
  /\ UNCHANGED <<inv, app>>

\* _run_model calls self.client.chat_completion_stream(...).
RunModelCall(i) ==
  /\ opc = "active"
  /\ i \in DOMAIN slots
  /\ slots[i].pc = "running"
  /\ IF RunModelBind(with_cb) # None
     THEN /\ slots' = [slots EXCEPT ![i] = [@ EXCEPT !.pc = "raised",
                                                    !.exc = RunModelBind(with_cb)]]
          /\ UNCHANGED <<cancel_event, calls>>
     ELSE /\ slots' = [slots EXCEPT ![i].pc = "calling"]
          /\ cancel_event' = FALSE
          /\ calls' = StreamBegin(calls, SlotCall(i))
  /\ UNCHANGED <<is_cancelled, cancel_pc, mode, models, delay, with_cb, opc,
                 idx, results, exc, slept, cancel_before, cancel_during>>
  /\ UNCHANGED <<inv, app>>

\* run_single returns what _run_model returned, or raises what it raised.
RunSingleEnd ==
  /\ mode = "single"
  /\ opc = "active"
  /\ Finished(slots[1])
  /\ IF slots[1].pc = "raised"
     THEN opc' = "raised" /\ exc' = slots[1].exc /\ UNCHANGED results
     ELSE opc' = "returned" /\ results' = <<slots[1].result>> /\ UNCHANGED exc
  /\ UNCHANGED <<is_cancelled, cancel_event, cancel_pc, mode, models, delay,
                 with_cb, idx, slots, slept, cancel_before,
                 cancel_during, calls>>
  /\ UNCHANGED <<inv, app>>

\* What gather(..., return_exceptions=True) hands back for task i, turned
\* into the entry of final_results.
FinalResult(i) ==
  IF slots[i].pc = "raised"
  THEN [model_name |-> models[i], content |-> <<>>, error |-> slots[i].exc]
  ELSE slots[i].result

\* run_parallel once gather is done: every exception is converted with
\* ModelStats(...), the first conversion that raises ends the operation.
RunParallelEnd ==
  /\ mode = "parallel"
  /\ opc = "active"
  /\ \A i \in DOMAIN slots : Finished(slots[i])
  /\ IF ModelStatsInit # None /\ \E i \in DOMAIN slots : slots[i].pc = "raised"
     THEN opc' = "raised" /\ exc' = ModelStatsInit /\ UNCHANGED results
     ELSE /\ opc' = "returned"
          /\ results' = [i \in DOMAIN slots |-> FinalResult(i)]
          /\ UNCHANGED exc
  /\ UNCHANGED <<is_cancelled, cancel_event, cancel_pc, mode, models, delay,
                 with_cb, idx, slots, slept, cancel_before,
                 cancel_during, calls>>
  /\ UNCHANGED <<inv, app>>

\* run_sequential's loop head, reached at the start and after each model
\* (once asyncio.sleep(delay) is over, when it slept): the list is
\* exhausted, or cancellation is seen and the loop left, or the next model
\* is run.
RunSequentialHead ==
  /\ mode = "sequential"
  /\ opc \in {"head", "sleeping"}
  /\ opc' = IF idx > Len(models) \/ is_cancelled THEN "returned" ELSE "active"
  /\ UNCHANGED <<is_cancelled, cancel_event, cancel_pc, mode, models, delay,
                 with_cb, idx, slots, results, exc, slept, cancel_before,
                 cancel_during, calls>>
  /\ UNCHANGED <<inv, app>>

\* run_sequential after _run_model: its exception propagates; else the
\* result is appended and the delay slept unless this was the last model,
\* the delay is 0 or cancellation is set.
RunSequentialNext ==
  /\ mode = "sequential"
  /\ opc = "active"
  /\ Finished(slots[idx])
  /\ IF slots[idx].pc = "raised"
     THEN /\ opc' = "raised"
          /\ exc' = slots[idx].exc
          /\ UNCHANGED <<results, slept, idx>>
     ELSE /\ results' = Append(results, slots[idx].result)
          /\ UNCHANGED exc
          /\ IF idx < Len(models) /\ delay > 0 /\ ~is_cancelled
             THEN opc' = "sleeping" /\ slept' = slept \cup {idx}
             ELSE opc' = "head" /\ UNCHANGED slept
          /\ idx' = idx + 1
  /\ UNCHANGED <<is_cancelled, cancel_event, cancel_pc, mode, models, delay,
                 with_cb, slots, cancel_before, cancel_during, calls>>
  /\ UNCHANGED <<inv, app>>

(* ---------------------------- specification ---------------------------- *)

ModelLists == UNION {[1..n -> Names] : n \in 0..MaxModels}

Delays == {0, 1}

Next ==
  \/ ExperimentCancel
  \/ CancelPropagate
  \/ EvaluatorCancel
  \/ \E e \in EvalCalls : EvaluateStream(e)
  \/ \E c \in Callers, h \in HeaderOutcomes : StreamHeaders(c, h)
  \/ \E c \in Callers, l \in LineKinds : StreamLine(c, l)
  \/ \E c \in Callers : StreamEof(c)
  \/ \E c \in Callers : StreamFail(c)
  \/ \E c \in Callers : StreamReturn(c)
  \/ \E name \in Names, cb \in BOOLEAN : RunSingle(name, cb)
  \/ \E ms \in ModelLists, cb \in BOOLEAN : RunParallel(ms, cb)
  \/ \E ms \in ModelLists, d \in Delays, cb \in BOOLEAN : RunSequential(ms, d, cb)
  \/ \E i \in SlotIds : RunModelStart(i)
  \/ \E i \in SlotIds : RunModelCall(i)
  \/ RunSingleEnd
  \/ RunParallelEnd
  \/ RunSequentialHead
  \/ RunSequentialNext

Spec == Init /\ [][Next]_vars

(* -------------------------------- claims ------------------------------- *)

OpEnded == opc \in {"returned", "raised"}

\* C1: run_parallel over n configs returns exactly n results, the result at
\* index i carrying the name of config i.
C1_ParallelOrder ==
  mode = "parallel" /\ OpEnded =>
    /\ opc = "returned"
    /\ Len(results) = Len(models)
    /\ \A i \in 1..Len(models) : results[i].model_name = models[i]

\* C2: when the task of some model k raised, run_parallel does not raise: it
\* returns n results, result k carries str(exception) as its error and
\* every other result is the one its own task returned.
C2_ParallelIsolation ==
  mode = "parallel" /\ OpEnded /\ (\E k \in DOMAIN slots : slots[k].pc = "raised") =>
    /\ opc = "returned"
    /\ Len(results) = Len(models)
    /\ \A k \in DOMAIN slots :
         IF slots[k].pc = "raised"
         THEN results[k].error = slots[k].exc /\ results[k].error # None
         ELSE results[k] = slots[k].result

\* C3: a slot during whose run cancel() was called returns a result, and
\* that result has error "Cancelled".
C3_CancelWins ==
  \A i \in DOMAIN slots :
    Finished(slots[i]) /\ slots[i].hit =>
      slots[i].pc = "returned" /\ slots[i].result.error = "Cancelled"

\* C4: a streaming call that was cancelled after its last line was received
\* and before its result was built returns error "Cancelled".
C4_LateCancel ==
  \A c \in Callers :
    calls[c].pc = "returned" /\ calls[c].late =>
      calls[c].result.error = "Cancelled"

\* The step in which invocation c receives one more line of its body.
ReceivesLine(c) == calls'[c].nlines = calls[c].nlines + 1

CancelledNow(c) ==
  calls'[c].pc = "returned" /\ calls'[c].result.error = "Cancelled"

C6_SingleAlreadyCancelled ==
  mode = "single" /\ cancel_before /\ Finished(slots[1]) =>
    /\ slots[1].pc = "returned"
    /\ slots[1].result.error = "Cancelled"
    /\ slots[1].result.content = <<>>
    /\ calls[SlotCall(1)].pc = "idle"

\* C7: when cancel() was called while model i of run_sequential was running,
\* no later model is started and the operation returns exactly the results
\* of models 1..i, in config order.
C7_SequentialStops ==
  mode = "sequential" /\ OpEnded =>
    \A i \in DOMAIN slots :
      slots[i].hit =>
        /\ opc = "returned"
        /\ Len(results) = i
        /\ \A k \in 1..i : results[k].model_name = models[k]
        /\ \A j \in DOMAIN slots :
             j > i => slots[j].pc = "pending" /\ calls[SlotCall(j)].pc = "idle"

\* C9: run_sequential with a positive delay and no cancellation sleeps after
\* every model but the last, and never after the last.
C9_SequentialDelay ==
  mode = "sequential" /\ OpEnded /\ delay > 0 /\ ~cancel_during =>
    slept = 1..(Len(models) - 1)

\* C10: a batch (run_parallel, run_sequential) during which cancel() is not
\* called keeps the coordinator's flag reset, however it stood before: no
\* slot takes the already-cancelled branch, no result is "Cancelled" and
\* run_sequential leaves its loop only at the end of the list.
C10_BatchResetsFlag ==
  mode \in {"parallel", "sequential"} /\ ~cancel_during =>
    /\ ~is_cancelled
    /\ \A i \in DOMAIN slots :
         ~slots[i].skipped /\ slots[i].result.error # "Cancelled"
    /\ \A k \in 1..Len(results) : results[k].error # "Cancelled"
    /\ mode = "sequential" /\ opc = "returned" => idx > Len(models)

\* C10's case: cancel() ran before the batch began, not since, and every
\* slot of the batch went past the cancellation check.
C10_Witness ==
  /\ mode \in {"parallel", "sequential"}
  /\ cancel_before
  /\ ~cancel_during
  /\ Len(models) > 1
  /\ \A i \in DOMAIN slots : slots[i].pc # "pending"

\* C11: Experiment.cancel() sets the coordinator's flag with its first
\* statement and the client's flag with its second, so that both are set
\* when it returns; called again with both flags set it changes neither.
C11_CancelSetsBoth ==
  [][/\ (cancel_pc = "idle" /\ cancel_pc' = "propagate" => is_cancelled')
     /\ (cancel_pc = "propagate" /\ cancel_pc' = "idle" =>
           cancel_event' /\ (is_cancelled => is_cancelled'))
     /\ (cancel_pc' # cancel_pc /\ is_cancelled /\ cancel_event =>
           is_cancelled' /\ cancel_event')]_vars

\* C11's case: nothing but cancel() has run, it has returned once with both
\* flags set, and it is running a second time.
C11_Witness ==
  /\ opc = "idle"
  /\ \A c \in Callers : calls[c].pc = "idle"
  /\ is_cancelled
  /\ cancel_event
  /\ cancel_pc = "propagate"

(* ------------------- the client, line by line -------------------------- *)

\* Python truthiness of a str-or-None value.
Truthy(x) == x # "" /\ x # None

\* dict.get(key, 0) on a usage object: entry i, 0 when it is absent.
UsageGet(usage, i) == IF i \in DOMAIN usage THEN usage[i] ELSE 0

RECURSIVE Join(_)
\* "".join(pieces), for pieces that are all str.
Join(pieces) ==
  IF pieces = <<>> THEN "" ELSE Head(pieces) \o Join(Tail(pieces))

\* "".join(pieces) raises TypeError when a piece is not a str.
JoinRaises(pieces) == \E i \in DOMAIN pieces : pieces[i] = None

\* "".join(accumulated_reasoning) if accumulated_reasoning else None.
JoinReasoning(pieces) == IF pieces = <<>> THEN None ELSE Join(pieces)

\* clear() leaving the event as it is.
EventClearKept(event) == event

\* self._cancel_event.clear(): the value the event takes.
EventClear(event) == FALSE

\* The invocation returns `response`.
Return(s, response) == [s EXCEPT !.pc = "returned", !.response = response]

\* A return statement that joins the accumulated content. When the join
\* raises TypeError inside the try block, `except Exception` catches it and
\* joins again: that TypeError leaves the function.
ReturnJoined(s, prompt_tokens, completion_tokens, total_tokens, error) ==
  IF JoinRaises(s.accumulated_content)
  THEN [s EXCEPT !.pc = "raised", !.exc = ExcJoin]
  ELSE Return(s, ModelResponse(Join(s.accumulated_content), prompt_tokens,
                               completion_tokens, total_tokens,
                               JoinReasoning(s.accumulated_reasoning), error))

\* `except asyncio.CancelledError` and `except Exception` of
\* chat_completion_stream.
StreamHandler(s, kind, message) ==
  ReturnJoined(s, 0, s.total_completion_tokens, s.total_completion_tokens,
               IF kind = "cancelled_error" THEN "Cancelled" ELSE message)

\* After the loop and aclose(): cancelled, ended without [DONE], or complete.
ReturnAfterLoop(s) ==
  ReturnJoined(s, s.prompt_tokens_from_stream, s.total_completion_tokens,
               s.prompt_tokens_from_stream + s.total_completion_tokens,
               IF s.cancelled THEN "Cancelled"
               ELSE IF ~s.done_receiving THEN "Stream ended unexpectedly"
               ELSE None)

\* An exception inside the loop: `finally` closes the response, the handler
\* builds the result.
Abort(s, kind, message) ==
  StreamHandler([s EXCEPT !.closed = TRUE, !.ending = "failed"], kind, message)

\* The invocation begins: locals initialised; the flag is cleared and the
\* request sent by the action.
BeginInv(fn, cb, flag) ==
  [IdleInv EXCEPT !.fn = fn, !.pc = "connecting", !.on_chunk = cb,
                  !.flag_on_entry = flag]

\* The stream's response headers arrive, or the await fails.
InvHeaders(s, h, flag) ==
  IF h \in FailKinds
  THEN StreamHandler([s EXCEPT !.ending = "failed"], h, ExcTransport)
  ELSE IF flag
  THEN Return([s EXCEPT !.ending = "cancelled"],
              ModelResponse("", 0, 0, 0, None, "Cancelled"))
  ELSE IF h = "status_error"
  THEN Return([s EXCEPT !.ending = "status"],
              ModelResponse("", 0, 0, 0, None, "HTTP error"))
  ELSE [s EXCEPT !.pc = "reading"]

\* accumulated_content.append putting the chunk in front.
AccumulateFront(acc, piece) == <<piece>> \o acc

\* accumulated_content.append(content_chunk).
Accumulate(acc, piece) == Append(acc, piece)

\* on_chunk called for chunks with content only.
OnChunkContentOnly(delivered, l) ==
  IF Truthy(l.content) THEN Append(delivered, <<l.content, l.reasoning>>)
  ELSE delivered

\* on_chunk(content_chunk, reasoning_chunk): the calls made so far.
OnChunk(delivered, l) == Append(delivered, <<l.content, l.reasoning>>)

\* json.JSONDecodeError taken for fatal.
JsonDecodeErrorAborts(s) == Abort(s, "exception", "malformed JSON")

\* except json.JSONDecodeError: continue.
JsonDecodeError(s) == s

\* A chunk with choices: the delta is accumulated and handed to on_chunk
\* when it has content or reasoning, then the usage is captured.
InvChunk(s, l) ==
  LET has == Truthy(l.content) \/ Truthy(l.reasoning)
      called == has /\ s.on_chunk # "none"
      s1 == IF has
            THEN [s EXCEPT
                    !.accumulated_content = Accumulate(@, l.content),
                    !.accumulated_reasoning =
                       IF Truthy(l.reasoning) THEN Append(@, l.reasoning) ELSE @,
                    !.delivered = IF called THEN OnChunk(@, l) ELSE @]
            ELSE s
  IN IF called /\ s.on_chunk = "raises" THEN Abort(s1, "exception", ExcCallback)
     ELSE IF l.usage # NoUsage
          THEN [s1 EXCEPT
                  !.total_completion_tokens = UsageGet(l.usage, 2),
                  !.prompt_tokens_from_stream = UsageGet(l.usage, 1)]
     ELSE s1

\* One line of the body: the flag is looked at, then the line is parsed.
InvLine(s, l, flag) ==
  LET r == [s EXCEPT !.lines = Append(@, l)]
  IN IF flag
     THEN ReturnAfterLoop([r EXCEPT !.cancelled = TRUE, !.closed = TRUE,
                                    !.ending = "cancelled"])
     ELSE CASE l.kind = "blank" -> r
            [] l.kind = "done" -> [r EXCEPT !.done_receiving = TRUE]
            [] l.kind = "malformed" -> JsonDecodeError(r)
            [] l.kind = "no_choices" -> r
            [] l.kind = "bad_shape" -> Abort(r, "exception", ExcAttribute)
            [] l.kind = "chunk" -> InvChunk(r, l)

\* The body ends: the loop is left, the response closed, the result built.
\* The flag is not looked at again.
InvEof(s) == ReturnAfterLoop([s EXCEPT !.closed = TRUE, !.ending = "eof"])

\* The transport fails while the body is read.
InvFail(s, kind) == Abort(s, kind, ExcTransport)

\* chat_completion after `await client.post(...)`.
InvRespond(s, o, flag) ==
  LET r == [s EXCEPT !.body = o]
  IN IF o.kind \in FailKinds
     THEN Return(r, ModelResponse("", 0, 0, 0, None,
                                  IF o.kind = "cancelled_error"
                                  THEN "Cancelled" ELSE ExcTransport))
     ELSE IF flag
     THEN Return(r, ModelResponse("", 0, 0, 0, None, "Cancelled"))
     ELSE IF o.kind = "status_error"
     THEN Return(r, ModelResponse("", 0, 0, 0, None, "HTTP error"))
     ELSE IF o.kind = "bad_shape"
     THEN Return(r, ModelResponse("", 0, 0, 0, None, ExcAttribute))
     ELSE Return(r, ModelResponse(o.content, UsageGet(o.usage, 1),
                                  UsageGet(o.usage, 2), UsageGet(o.usage, 3),
                                  None, None))

engineVars ==
  <<is_cancelled, cancel_pc, mode, models, delay, with_cb, opc, idx, slots,
    results, exc, slept, cancel_before, cancel_during, calls>>

\* cancel_request(), from another thread, at any moment.
ClientCancelRequest ==
  /\ cancel_event' = CancelRequest(cancel_event)
  /\ UNCHANGED <<inv, engineVars, app>>

\* reset_cancel(), as the Evaluator calls it before its invocation.
ClientResetCancel ==
  /\ inv.pc \in {"idle", "returned", "raised"}
  /\ cancel_event' = EventClear(cancel_event)
  /\ UNCHANGED <<inv, engineVars, app>>

ChatCompletionStream(cb) ==
  /\ inv.pc \in {"idle", "returned", "raised"}
  /\ inv' = BeginInv("chat_completion_stream", cb, cancel_event)
  /\ cancel_event' = EventClear(cancel_event)
  /\ UNCHANGED <<engineVars, app>>

ChatCompletion ==
  /\ inv.pc \in {"idle", "returned", "raised"}
  /\ inv' = BeginInv("chat_completion", "none", cancel_event)
  /\ cancel_event' = EventClear(cancel_event)
  /\ UNCHANGED <<engineVars, app>>

ClientHeaders(h) ==
  /\ inv.fn = "chat_completion_stream"
  /\ inv.pc = "connecting"
  /\ inv' = InvHeaders(inv, h, cancel_event)
  /\ UNCHANGED <<cancel_event, engineVars, app>>

ClientLine(l) ==
  /\ inv.pc = "reading"
  /\ Len(inv.lines) < MaxStreamLines
  /\ inv' = InvLine(inv, l, cancel_event)
  /\ UNCHANGED <<cancel_event, engineVars, app>>

ClientEof ==
  /\ inv.pc = "reading"
  /\ inv' = InvEof(inv)
  /\ UNCHANGED <<cancel_event, engineVars, app>>

ClientFail(kind) ==
  /\ inv.pc = "reading"
  /\ inv' = InvFail(inv, kind)
  /\ UNCHANGED <<cancel_event, engineVars, app>>

ClientRespond(o) ==
  /\ inv.fn = "chat_completion"
  /\ inv.pc = "connecting"
  /\ inv' = InvRespond(inv, o, cancel_event)
  /\ UNCHANGED <<cancel_event, engineVars, app>>

ClientNext ==
  \/ ClientCancelRequest
  \/ ClientResetCancel
  \/ \E cb \in OnChunkKinds : ChatCompletionStream(cb)
  \/ ChatCompletion
  \/ \E h \in HeaderKinds : ClientHeaders(h)
  \/ \E l \in StreamLines : ClientLine(l)
  \/ ClientEof
  \/ \E k \in FailKinds : ClientFail(k)
  \/ \E o \in BufferedOutcomes : ClientRespond(o)

ClientSpec == Init /\ [][ClientNext]_vars

(* --------------------------- claims, client ---------------------------- *)

Streaming == inv.fn = "chat_completion_stream"

\* The step in which the invocation receives one more line.
InvReceivesLine == Len(inv'.lines) = Len(inv.lines) + 1

\* The lines the parser got to: all that were received, less the one at
\* which the flag was seen set.
Processed ==
  IF inv.ending = "cancelled" /\ inv.lines # <<>>
  THEN SubSeq(inv.lines, 1, Len(inv.lines) - 1)
  ELSE inv.lines

RECURSIVE ConcatContents(_)
\* The content of the chunks among `ls`, concatenated in arrival order.
ConcatContents(ls) ==
  IF ls = <<>> THEN ""
  ELSE IF Head(ls).kind = "chunk" /\ Head(ls).content # None
       THEN Head(ls).content \o ConcatContents(Tail(ls))
       ELSE ConcatContents(Tail(ls))

\* C12: an invocation is at the request with the flag cleared, however the
\* flag stood on entry; a flag set when the response (the stream's headers)
\* arrives ends the invocation with "Cancelled" before the status is looked
\* at, unless the await itself failed; and the flag is looked at with every
\* line received: set, the invocation is cancelled at that line, clear, it
\* is not.
C12_ClearedThenChecked ==
  [][/\ (inv'.pc = "connecting" /\ inv.pc # "connecting" => ~cancel_event')
     /\ (inv.pc = "connecting" /\ inv'.pc # "connecting" /\ cancel_event =>
           /\ inv'.pc = "returned"
           /\ inv'.response.error \in {"Cancelled", ExcTransport})
     /\ (inv.pc = "reading" /\ InvReceivesLine =>
           /\ inv'.cancelled = cancel_event
           /\ cancel_event => inv'.pc # "reading" /\ inv'.ending = "cancelled")]_vars

\* C12's case: an invocation entered with the flag set went on to read its
\* body, and was later stopped by the flag at its second line.
C12_Witness ==
  /\ Streaming
  /\ inv.flag_on_entry
  /\ inv.cancelled
  /\ Len(inv.lines) = 2
  /\ inv.pc = "returned"

\* C13: the line at which the flag is seen set ends the invocation: it
\* returns error "Cancelled" with the content accumulated before that line,
\* the line is neither appended nor handed to on_chunk, and the response is
\* closed.
C13_CancelMidStream ==
  [][inv.pc = "reading" /\ InvReceivesLine /\ cancel_event =>
       /\ inv'.pc = "returned"
       /\ inv'.response.error = "Cancelled"
       /\ inv'.response.content = Join(inv.accumulated_content)
       /\ inv'.accumulated_content = inv.accumulated_content
       /\ inv'.delivered = inv.delivered
       /\ inv'.closed]_vars

\* C14: a stream that reached its end with no [DONE] line and no
\* cancellation returns the content accumulated with error "Stream ended
\* unexpectedly"; a stream's result has error None only if a [DONE] line
\* was received.
C14_EndedUnexpectedly ==
  /\ Streaming /\ inv.ending = "eof"
       /\ (\A i \in DOMAIN inv.lines : inv.lines[i].kind # "done") =>
         /\ inv.pc = "returned"
         /\ inv.response.error = "Stream ended unexpectedly"
         /\ inv.response.content = Join(inv.accumulated_content)
  /\ Streaming /\ inv.pc = "returned" /\ inv.response.error = None =>
       \E i \in DOMAIN inv.lines : inv.lines[i].kind = "done"

\* C15: no invocation raises: whatever the transport does and whatever lines
\* arrive, it returns, and a failure (of an await, of the status, of a
\* payload's shape, of on_chunk) is carried by the result's error.
C15_NeverRaises ==
  /\ inv.pc # "raised"
  /\ inv.pc = "returned"
       /\ (inv.ending \in {"failed", "status"}
           \/ inv.body.kind \in {"status_error", "bad_shape"} \cup FailKinds) =>
         inv.response.error # None

\* A chunk whose delta carries its content as text.
ContentChunk(l) == l.kind = "chunk" /\ l.content # None

\* C16: a stream made of content chunks and a closing [DONE] line, read to
\* its end, returns error None and the chunks' content concatenated in
\* arrival order; a buffered call whose response carries a text returns
\* error None and that text, so the two agree when the text is the same.
C16_StreamEqualsBuffered ==
  /\ Streaming /\ inv.ending = "eof" /\ inv.lines # <<>>
       /\ inv.lines[Len(inv.lines)].kind = "done"
       /\ (\A i \in 1..(Len(inv.lines) - 1) : ContentChunk(inv.lines[i])) =>
         /\ inv.pc = "returned"
         /\ inv.response.error = None
         /\ inv.response.content = ConcatContents(inv.lines)
  /\ inv.fn = "chat_completion" /\ inv.pc = "returned"
       /\ inv.body.kind = "message" /\ inv.response.error # "Cancelled" =>
         /\ inv.response.error = None
         /\ inv.response.content = inv.body.content

\* C16's case: the chunks "a" and "b" and [DONE] were streamed and the
\* invocation returned "ab".
C16_Witness ==
  /\ Streaming
  /\ inv.pc = "returned"
  /\ Len(inv.lines) = 3
  /\ inv.lines[1].content = "a"
  /\ inv.lines[2].content = "b"
  /\ inv.lines[3].kind = "done"
  /\ inv.response.content = "ab"
  /\ inv.response.error = None

\* C17: the step that receives a line whose payload is not JSON changes
\* nothing but the count of lines received, and the stream is read on; the
\* content of every result is that of the chunks the parser got to,
\* concatenated, and a stream read to its end has the error its [DONE]
\* line decides, malformed lines or not.
C17_MalformedSkipped ==
  /\ [][inv.pc = "reading" /\ InvReceivesLine /\ ~cancel_event
          /\ inv'.lines[Len(inv'.lines)].kind = "malformed" =>
            inv' = [inv EXCEPT !.lines = inv'.lines]]_vars
  /\ [](Streaming /\ inv.pc = "returned" =>
          /\ inv.response.content = ConcatContents(Processed)
          /\ inv.ending = "eof" =>
               inv.response.error =
                 IF \E i \in DOMAIN inv.lines : inv.lines[i].kind = "done"
                 THEN None ELSE "Stream ended unexpectedly")

\* C17's case: a malformed line between the chunks "a" and "b", and the
\* invocation returned "ab".
C17_Witness ==
  /\ Streaming
  /\ inv.pc = "returned"
  /\ Len(inv.lines) = 3
  /\ inv.lines[1].content = "a"
  /\ inv.lines[2].kind = "malformed"
  /\ inv.lines[3].content = "b"
  /\ inv.response.content = "ab"

RECURSIVE ExpectedCalls(_)
\* The on_chunk calls the lines `ls` ask for: one per chunk with non-empty
\* content or reasoning, in arrival order.
ExpectedCalls(ls) ==
  IF ls = <<>> THEN <<>>
  ELSE IF Head(ls).kind = "chunk"
            /\ (Truthy(Head(ls).content) \/ Truthy(Head(ls).reasoning))
       THEN <<<<Head(ls).content, Head(ls).reasoning>>>> \o ExpectedCalls(Tail(ls))
       ELSE ExpectedCalls(Tail(ls))

\* C18: with an on_chunk given, at every point of the stream the calls made
\* are exactly those the lines parsed so far ask for, in their order, and
\* the content arguments of the calls are the pieces accumulated.
C18_OnChunkInStep ==
  Streaming /\ inv.on_chunk # "none" =>
    /\ inv.delivered = ExpectedCalls(Processed)
    /\ [i \in DOMAIN inv.delivered |-> inv.delivered[i][1]]
         = inv.accumulated_content

\* C18's case: a chunk with reasoning only and a chunk with content were
\* both handed to on_chunk, and the stream is still being read.
C18_Witness ==
  /\ Streaming
  /\ inv.on_chunk = "ok"
  /\ inv.pc = "reading"
  /\ Len(inv.delivered) = 2
  /\ inv.delivered[1] = <<"", "r">>
  /\ inv.delivered[2] = <<"a", "">>

RECURSIVE LastUsage(_)
\* The usage object of the last of the lines `ls` that carried one.
LastUsage(ls) ==
  IF ls = <<>> THEN NoUsage
  ELSE IF ls[Len(ls)].usage # NoUsage THEN ls[Len(ls)].usage
  ELSE LastUsage(SubSeq(ls, 1, Len(ls) - 1))

\* C19: every result of a stream has total_tokens = prompt_tokens +
\* completion_tokens, the two counts being those of the last line that
\* carried a usage object, 0 when none did.
C19_TokenTotals ==
  Streaming /\ inv.pc = "returned" =>
    /\ inv.response.total_tokens =
         inv.response.prompt_tokens + inv.response.completion_tokens
    /\ inv.response.prompt_tokens = UsageGet(LastUsage(Processed), 1)
    /\ inv.response.completion_tokens = UsageGet(LastUsage(Processed), 2)

\* C20: a buffered call that succeeds on a response whose usage gives
\* prompt_tokens a and completion_tokens b returns total_tokens a + b,
\* whether the provider sent total_tokens or not.
C20_BufferedTotal ==
  inv.fn = "chat_completion" /\ inv.pc = "returned"
    /\ inv.response.error = None /\ inv.body.usage # NoUsage =>
      /\ inv.response.prompt_tokens = inv.body.usage[1]
      /\ inv.response.completion_tokens = inv.body.usage[2]
      /\ inv.response.total_tokens = inv.body.usage[1] + inv.body.usage[2]

\* C37: once `data: [DONE]` was received, no later line of the stream adds
\* to the accumulated content or is handed to on_chunk.
C37_NothingAfterDone ==
  [][Streaming /\ inv.done_receiving /\ InvReceivesLine =>
       /\ inv'.accumulated_content = inv.accumulated_content
       /\ inv'.delivered = inv.delivered]_vars

(* ---------------------- callbacks of one slot --------------------------- *)

\* The notifications of a slot in the order of the per-slot state machine:
\* "running", any number of "streaming", one terminal status, "complete".
SlotOrdered(events) ==
  /\ Len(events) >= 3
  /\ events[1] = "running"
  /\ \A k \in 2..(Len(events) - 2) : events[k] = "streaming"
  /\ events[Len(events) - 1] \in {"completed", "error", "cancelled"}
  /\ events[Len(events)] = "complete"

\* C23: a slot that started running with callbacks supplied has, once
\* _run_model is over, notified "running" once, then "streaming" zero or
\* more times, then one terminal status, then complete_cb once, and
\* nothing after the terminal status but complete_cb.
C23_CallbackOrder ==
  \A i \in DOMAIN slots :
    with_cb /\ Finished(slots[i]) /\ ~slots[i].skipped =>
      SlotOrdered(slots[i].events)

(* ------------------------ requests per call ----------------------------- *)

\* C30: every invocation of the client, a model slot's or the judge's,
\* issues at most one HTTP request, however it ends, and a slot found
\* cancelled before it started has issued none.
C30_AtMostOneRequest ==
  /\ \A c \in Callers : calls[c].requests <= 1
  /\ \A i \in DOMAIN slots :
       slots[i].skipped => calls[SlotCall(i)].requests = 0

\* C30's case: in one parallel run the first slot started and is over, the
\* second was found cancelled before it started, and neither has issued
\* more than one request.
C30_Witness ==
  /\ mode = "parallel"
  /\ Len(slots) = 2
  /\ Finished(slots[1]) /\ ~slots[1].skipped
  /\ Finished(slots[2]) /\ slots[2].skipped
  /\ calls[SlotCall(1)].requests <= 1
  /\ calls[SlotCall(2)].requests = 0

(* ----------------------- the call of a slot ----------------------------- *)

\* C32: for every slot that was not found cancelled, the coordinator's
\* call of chat_completion_stream is accepted by the client, the slot's
\* parameters binding to the client's, and a request is issued.
C32_CallAccepted ==
  \A i \in DOMAIN slots :
    slots[i].pc \notin {"pending", "running"} /\ ~slots[i].skipped =>
      /\ slots[i].exc \notin {ExcMultipleValues, ExcTooManyPositional,
                              ExcUnexpectedKeyword}
      /\ calls[SlotCall(i)].requests = 1

\* C33: a slot that ran with callbacks ends by returning its result, having
\* reported "completed" when that result has no error and "error" when it
\* has one ("Cancelled" included), and then handed that result to
\* complete_cb.
C33_TerminalStatus ==
  \A i \in DOMAIN slots :
    with_cb /\ Finished(slots[i]) /\ ~slots[i].skipped =>
      /\ slots[i].pc = "returned"
      /\ Len(slots[i].events) >= 2
      /\ slots[i].events[Len(slots[i].events) - 1] =
           IF slots[i].result.error = None THEN "completed" ELSE "error"
      /\ slots[i].events[Len(slots[i].events)] = "complete"

(* ------------------------ how a batch ends ------------------------------ *)

\* C34: a batch ends by returning its list: run_parallel once every slot's
\* task has finished and not before, run_sequential after at most as many
\* model calls as it has configs.
C34_BatchReturns ==
  [][ (mode \in {"parallel", "sequential"} /\ ~OpEnded /\ OpEnded') =>
        (/\ opc' = "returned"
         /\ mode = "parallel" => \A i \in DOMAIN slots : Finished(slots[i])
         /\ Len(results') <= Len(models)) ]_vars

(* -------------------- a cancel request in flight ------------------------ *)

Count(events, e) == Cardinality({k \in DOMAIN events : events[k] = e})

\* C36: with callbacks supplied, every result in the list a batch returned
\* was handed to complete_cb exactly once, by its own slot, before the
\* batch returned.
C36_CompleteForEveryResult ==
  mode \in {"parallel", "sequential"} /\ opc = "returned" /\ with_cb =>
    \A i \in DOMAIN results :
      /\ Count(slots[i].events, "complete") = 1
      /\ slots[i].result = results[i]

\* C36's case: a batch with callbacks has returned a list with a result in
\* it. No behaviour reaches it: every slot raises, found cancelled or not,
\* so that a batch returns the empty list or raises, and C36 holds of
\* empty lists only.
C36_Case ==
  /\ mode \in {"parallel", "sequential"} /\ opc = "returned" /\ with_cb
  /\ results # <<>>

(* ------------------- run_single and the flag ---------------------------- *)

\* C38: run_single leaves the coordinator's flag as it finds it: started
\* after cancel() it ends with the flag still set, having returned a
\* result with error "Cancelled" and issued no request.
C38_SingleKeepsFlag ==
  mode = "single" /\ cancel_before /\ OpEnded =>
    /\ is_cancelled
    /\ opc = "returned"
    /\ Len(results) = 1 /\ results[1].error = "Cancelled"
    /\ calls[SlotCall(1)].requests = 0

(* ------------------- the engine's functions (FnSpec) -------------------- *)

\* Every variable the applications of the functions leave alone.
fnFrame == <<cancel_event, inv, engineVars>>

\* No function has been applied yet: each behaviour of FnSpec applies one
\* function to one choice of inputs.
FnIdle == app = NoApp

(* ---- the result of a non-2xx status (client.py, both handlers) ---- *)

\* Status codes raise_for_status() raises for.
StatusCodes == {400, 404, 500, 502}

\* str(status_code) inside the f-string.
StatusText(status) ==
  CASE status = 400 -> "400"
    [] status = 404 -> "404"
    [] status = 500 -> "500"
    [] status = 502 -> "502"

\* The request URLs: f"{base_url}/chat/completions".
Endpoints == {"https://api.openai.com/v1/chat/completions"}

\* Bodies of a non-2xx response: `text` is the raw body, `shape` what
\* response.json() makes of it, `message` the value under error.message
\* when the body has one (None for JSON null).
ErrorBodies ==
  { [text |-> "{\"error\":{\"message\":\"boom\"}}", shape |-> "message", message |-> "boom"],
    [text |-> "{\"error\":{\"message\":null}}", shape |-> "message", message |-> None],
    [text |-> "{\"error\":{}}", shape |-> "error_object", message |-> None],
    [text |-> "{\"error\":\"boom\"}", shape |-> "error_string", message |-> None],
    [text |-> "{}", shape |-> "no_error", message |-> None],
    [text |-> "[1]", shape |-> "not_object", message |-> None],
    [text |-> "Bad Gateway", shape |-> "not_json", message |-> None],
    [text |-> "", shape |-> "not_json", message |-> None] }

\* error_msg = f"HTTP {e.response.status_code}: {e.response.text} (URL: {endpoint})"
HttpErrorText(status, text, endpoint) ==
  "HTTP " \o StatusText(status) \o ": " \o text \o " (URL: " \o endpoint \o ")"

\* error_data.get("error", {}).get("message", error_msg) inside
\* try/except Exception: a body with error.message gives that value, JSON
\* null included; {} and {"error": {}} give the default; a body that is no
\* JSON, no object, or whose "error" is no object raises and the default
\* stays.
StatusErrorMessage(status, body, endpoint) ==
  IF body.shape = "message" THEN body.message
  ELSE HttpErrorText(status, body.text, endpoint)

\* The ModelResponse the HTTPStatusError handler returns.
StatusErrorResponse(status, body, endpoint) ==
  ModelResponse("", 0, 0, 0, None, StatusErrorMessage(status, body, endpoint))

\* response.text of a streamed response whose body was not read.
ExcResponseNotRead == "ResponseNotRead"

\* except httpx.HTTPStatusError of chat_completion (stream = FALSE) and of
\* chat_completion_stream (stream = TRUE): the same statements in both.
\* client.post() has read the body; client.stream() has not, and the
\* handler reads e.response.text without reading it first: `read` says
\* whether the library hands the text out all the same, and when it does
\* not the f-string raises inside the handler.
StatusError(stream, read, status, body, endpoint) ==
  /\ FnIdle
  /\ ~stream => read
  /\ app' = [fn |-> "status_error", stream |-> stream, status |-> status,
             body |-> body, endpoint |-> endpoint,
             exc |-> IF read THEN None ELSE ExcResponseNotRead,
             out |-> IF read THEN StatusErrorResponse(status, body, endpoint)
                     ELSE NoResponse]
  /\ UNCHANGED fnFrame

\* C21: a non-2xx status gives a result with empty content, all token
\* counts 0 and, as error, the provider's error.message when the body has
\* one, else exactly "HTTP <status>: <raw body>".
C21_StatusErrorMessage ==
  app.fn = "status_error" =>
    /\ app.exc = None
    /\ app.out.content = ""
    /\ app.out.prompt_tokens = 0
    /\ app.out.completion_tokens = 0
    /\ app.out.total_tokens = 0
    /\ app.out.error =
         IF app.body.shape = "message" /\ app.body.message # None
         THEN app.body.message
         ELSE "HTTP " \o StatusText(app.status) \o ": " \o app.body.text

(* ---- the request payload (client.py, both builders) ---- *)

\* top_k values: the default -1, 0 and a positive one.
TopKs == {-1, 0, 40}

\* stop values; None and [] are both falsy, the empty sequence stands for
\* both.
Stops == {<<>>, <<"END">>}

\* max_tokens values: the default 0, a negative and a positive one.
MaxTokens == {-1, 0, 5}

\* frequency_penalty and presence_penalty values, in tenths.
Penalties == {-5, 0, 5}

\* `if top_k > 0:`
IncludeTopKNonNegative(top_k) == top_k >= 0

IncludeTopK(top_k) == top_k > 0

\* The keys of the payload besides "stream": the literal's four and the
\* one each `if` adds.
PayloadKeys(top_k, stop, max_tokens, frequency_penalty, presence_penalty) ==
  {"model", "messages", "temperature", "top_p"}
    \cup (IF IncludeTopK(top_k) THEN {"top_k"} ELSE {})
    \cup (IF stop # <<>> THEN {"stop"} ELSE {})
    \cup (IF max_tokens > 0 THEN {"max_tokens"} ELSE {})
    \cup (IF frequency_penalty # 0 THEN {"frequency_penalty"} ELSE {})
    \cup (IF presence_penalty # 0 THEN {"presence_penalty"} ELSE {})

\* The value stored under key `k`.
PayloadValue(k, a) ==
  CASE k = "model" -> a.model
    [] k = "messages" -> << [role |-> "system", content |-> a.system_prompt],
                            [role |-> "user", content |-> a.user_prompt] >>
    [] k = "temperature" -> a.temperature
    [] k = "top_p" -> a.top_p
    [] k = "top_k" -> a.top_k
    [] k = "stop" -> a.stop
    [] k = "max_tokens" -> a.max_tokens
    [] k = "frequency_penalty" -> a.frequency_penalty
    [] k = "presence_penalty" -> a.presence_penalty
    [] k = "stream" -> TRUE

\* The payload of chat_completion.
BufferedPayload(a) ==
  [k \in PayloadKeys(a.top_k, a.stop, a.max_tokens, a.frequency_penalty,
                     a.presence_penalty) |-> PayloadValue(k, a)]

\* The payload of chat_completion_stream: "stream": True is in the literal.
StreamPayload(a) ==
  [k \in {"stream"} \cup PayloadKeys(a.top_k, a.stop, a.max_tokens,
                                     a.frequency_penalty, a.presence_penalty)
     |-> PayloadValue(k, a)]

\* The arguments both calls take, temperature and top_p in tenths.
PayloadArgs ==
  [model : {"m1"}, system_prompt : {"s"}, user_prompt : {"u"},
   temperature : {7}, top_p : {10}, top_k : TopKs, stop : Stops,
   max_tokens : MaxTokens, frequency_penalty : Penalties,
   presence_penalty : Penalties]

\* Both builders applied to the same arguments.
BuildPayload(a) ==
  /\ FnIdle
  /\ app' = [fn |-> "payload", args |-> a,
             buffered |-> BufferedPayload(a), stream |-> StreamPayload(a)]
  /\ UNCHANGED fnFrame

\* C22: the payload holds top_k iff top_k > 0, stop iff it is non-empty,
\* max_tokens iff it is > 0, each penalty iff it is not 0, each with the
\* value given, always model, messages, temperature and top_p; the
\* streaming payload is the buffered one plus stream = TRUE.
C22_Payload ==
  app.fn = "payload" =>
    LET a == app.args
        b == app.buffered
        s == app.stream
    IN /\ {"model", "messages", "temperature", "top_p"} \subseteq DOMAIN b
       /\ b.model = a.model /\ b.temperature = a.temperature
       /\ b.top_p = a.top_p
       /\ b.messages = << [role |-> "system", content |-> a.system_prompt],
                          [role |-> "user", content |-> a.user_prompt] >>
       /\ "stream" \notin DOMAIN b
       /\ ("top_k" \in DOMAIN b) = (a.top_k > 0)
       /\ ("stop" \in DOMAIN b) = (a.stop # <<>>)
       /\ ("max_tokens" \in DOMAIN b) = (a.max_tokens > 0)
       /\ ("frequency_penalty" \in DOMAIN b) = (a.frequency_penalty # 0)
       /\ ("presence_penalty" \in DOMAIN b) = (a.presence_penalty # 0)
       /\ "top_k" \in DOMAIN b => b.top_k = a.top_k
       /\ "stop" \in DOMAIN b => b.stop = a.stop
       /\ "max_tokens" \in DOMAIN b => b.max_tokens = a.max_tokens
       /\ "frequency_penalty" \in DOMAIN b =>
            b.frequency_penalty = a.frequency_penalty
       /\ "presence_penalty" \in DOMAIN b =>
            b.presence_penalty = a.presence_penalty
       /\ DOMAIN s = DOMAIN b \cup {"stream"}
       /\ s.stream = TRUE
       /\ \A k \in DOMAIN b : s[k] = b[k]

\* C22's case: top_k = 0 and max_tokens < 0 are left out while a stop list
\* and both penalties are sent.
C22_Witness ==
  /\ app.fn = "payload"
  /\ app.args.top_k = 0 /\ app.args.max_tokens = -1
  /\ app.args.stop # <<>>
  /\ app.args.frequency_penalty = -5 /\ app.args.presence_penalty = 5
  /\ DOMAIN app.buffered = {"model", "messages", "temperature", "top_p",
                            "stop", "frequency_penalty", "presence_penalty"}

(* ---- the user prompt of one slot (experiment.py, _run_model) ---- *)

\* ModelConfig.prompt_modifier values: the default "" and a text.
Modifiers == {"", "be brief"}

\* The shared user prompts.
UserPrompts == {"u"}

\* Lists of model configs, name and prompt_modifier of each.
ConfigLists ==
  UNION { [1..n -> [name : Names, prompt_modifier : Modifiers]] :
            n \in 1..MaxModels }

\* full_user_prompt = user_prompt; if model.prompt_modifier:
\*   full_user_prompt = f"{user_prompt}\n\n{model.prompt_modifier}"
FullUserPrompt(user_prompt, prompt_modifier) ==
  IF Truthy(prompt_modifier)
  THEN user_prompt \o "\n\n" \o prompt_modifier
  ELSE user_prompt

\* _run_model for slot i of `configs`, from the prompt to the call of the
\* client: the prompt is computed from the slot's own config, then the
\* call binds its arguments; `sent` says whether the client was entered.
RunModelPrompt(configs, i, user_prompt, cb) ==
  /\ FnIdle
  /\ app' = [fn |-> "run_model", configs |-> configs, index |-> i,
             user_prompt |-> user_prompt, cb |-> cb,
             full_user_prompt |->
               FullUserPrompt(user_prompt, configs[i].prompt_modifier),
             exc |-> RunModelBind(cb),
             sent |-> RunModelBind(cb) = None]
  /\ UNCHANGED fnFrame

\* C24: the request of slot i is sent with the shared user prompt followed
\* by "\n\n" and the slot's own prompt_modifier when that is non-empty,
\* the shared prompt unchanged otherwise, whatever the other configs hold.
C24_EffectivePrompt ==
  app.fn = "run_model" =>
    /\ app.sent
    /\ app.full_user_prompt =
         IF app.configs[app.index].prompt_modifier # ""
         THEN app.user_prompt \o "\n\n"
                \o app.configs[app.index].prompt_modifier
         ELSE app.user_prompt

(* ---- the judge prompt and the verdict (evaluator.py) ---- *)

\* Most per-model results handed to one evaluation.
MaxResults == 3

\* Per-model results as the GUI keeps them: the model's name, its content
\* ("" when nothing came back, a text otherwise, partial when the call
\* failed midway) and the error of its statistics.
ModelResults == [model : Names, content : {"", "A"}, error : {None, "boom"}]

ResultLists == UNION { [1..n -> ModelResults] : n \in 0..MaxResults }

RECURSIVE SkipFailed(_)
\* MainWindow._run_evaluation: `if stat and stat.error: continue`, else one
\* dict with model and content (and the statistics) is appended.
SkipFailed(rs) ==
  IF rs = <<>> THEN <<>>
  ELSE LET rest == SkipFailed(SubSeq(rs, 1, Len(rs) - 1))
           last == rs[Len(rs)]
       IN IF Truthy(last.error) THEN rest
          ELSE Append(rest, [model |-> last.model, content |-> last.content])

RECURSIVE ResponseBlocks(_, _)
\* The loop of _build_eval_prompt over enumerate(responses, 1), up to entry
\* n: `if resp.get("content"):` appends one block "Ответ {i} (модель:
\* {model}, ...):\n{content}\n\n"; the entry's error is not looked at.
ResponseBlocks(responses, n) ==
  IF n = 0 THEN <<>>
  ELSE IF Truthy(responses[n].content)
       THEN Append(ResponseBlocks(responses, n - 1),
                   [number |-> n, model |-> responses[n].model,
                    content |-> responses[n].content])
       ELSE ResponseBlocks(responses, n - 1)

\* _build_eval_prompt: the blocks of the prompt, between the fixed text
\* before and after them (the template's or the default one).
BuildEvalPromptBlocks(responses) == ResponseBlocks(responses, Len(responses))

\* _build_eval_prompt applied to a list of results: as given (gui = FALSE)
\* or as MainWindow._run_evaluation hands it over (gui = TRUE).
BuildEvalPrompt(rs, gui) ==
  /\ FnIdle
  /\ app' = [fn |-> "build_eval_prompt", results |-> rs, gui |-> gui,
             blocks |-> BuildEvalPromptBlocks(IF gui THEN SkipFailed(rs)
                                              ELSE rs)]
  /\ UNCHANGED fnFrame

RECURSIVE WithoutError(_)
\* The model and content of the results of `rs` that have no error.
WithoutError(rs) ==
  IF rs = <<>> THEN <<>>
  ELSE LET rest == WithoutError(SubSeq(rs, 1, Len(rs) - 1))
           last == rs[Len(rs)]
       IN IF last.error = None
          THEN Append(rest, <<last.model, last.content>>)
          ELSE rest

\* C25: the prompt has one response block for each result without error,
\* in order, and none for a result with error set, also when the failed
\* result carries partial content.
C25_FailedExcluded ==
  app.fn = "build_eval_prompt" =>
    [k \in 1..Len(app.blocks) |->
       <<app.blocks[k].model, app.blocks[k].content>>]
      = WithoutError(app.results)

\* What the judge call comes to: the result the client returns, or the
\* exception it raises (chat_completion_stream, "".join over a None).
JudgeResults ==
  { ModelResponse(c, 0, 0, 0, None, e) :
      c \in {"", "a is best"}, e \in {None, "", "boom", "Cancelled"} }

VerdictContent(result) == result.content

\* `result.content if not result.error else f"Error: {result.error}"`
Verdict(result) ==
  IF ~Truthy(result.error) THEN result.content
  ELSE "Error: " \o result.error

\* evaluate (stream = FALSE) and evaluate_stream (stream = TRUE): the
\* prompt is built from `responses`, which is only read; the client is
\* called with keywords; the verdict and the result are returned, or what
\* the client raised leaves the function.
Evaluate(stream, responses, result, raised) ==
  /\ FnIdle
  /\ raised # None => stream /\ raised = ExcJoin
  /\ app' = [fn |-> "evaluate", stream |-> stream, responses |-> responses,
             blocks |-> BuildEvalPromptBlocks(responses),
             result |-> result,
             exc |-> IF EvaluatorBind # None THEN EvaluatorBind ELSE raised,
             returned |-> IF EvaluatorBind = None /\ raised = None
                          THEN <<Verdict(result), result>>
                          ELSE <<>>,
             responses_after |-> responses]
  /\ UNCHANGED fnFrame

\* C26: when the judge call comes back with a result, evaluate and
\* evaluate_stream return (content, result) if the result has no error and
\* ("Error: " + error, result) if it has one, and the list of per-model
\* results is as it was passed in.
C26_Verdict ==
  app.fn = "evaluate" /\ app.exc = None =>
    /\ Len(app.returned) = 2
    /\ app.returned[2] = app.result
    /\ app.result.error \in {None, ""} =>
         app.returned[1] = app.result.content
    /\ app.result.error \notin {None, ""} =>
         app.returned[1] = "Error: " \o app.result.error
    /\ app.responses_after = app.responses

\* C26's case: evaluate_stream on three results, one of them failed, comes
\* back with a judge result whose error is set.
C26_Witness ==
  /\ app.fn = "evaluate" /\ app.stream /\ app.exc = None
  /\ Len(app.responses) = 3
  /\ \E i \in 1..3 : app.responses[i].error # None
  /\ app.result.error = "boom"
  /\ app.returned = <<"Error: boom", app.result>>

(* ---- the endpoint resolver (client.py, get_endpoint_config) ---- *)

\* Most endpoints configured on one client.
MaxEndpoints == 2

\* The client's base_url and api_key.
BaseUrl == "https://base/v1"

ApiKey == "K"

\* Entries of LLMAPIClient.endpoints: dicts with an id, a url and an
\* api_key, any of which may be missing; two entries may share an id.
EndpointConfigs ==
  { [id |-> "e1", url |-> "https://e1/v1", api_key |-> "K1"],
    [id |-> "e1", url |-> "https://dup/v1", api_key |-> "KD"],
    [id |-> "e2"],
    [url |-> "https://noid/v1", api_key |-> "KN"] }

EndpointLists == UNION { [1..n -> EndpointConfigs] : n \in 0..MaxEndpoints }

\* Overrides that are full URLs (ModelConfig.custom_endpoint).
FullUrls == {"https://other/v1"}

\* Values of endpoint_id: none, known and unknown logical ids, a full URL.
EndpointIds == {"", "e1", "e2", "nope"} \cup FullUrls

\* Values of default_endpoint_id.
DefaultIds == {"", "e1", "nope"}

\* Values of ModelConfig.custom_api_token.
ApiTokens == {"", "KO"}

\* dict.get(k, default); dict.get(k) is DictGet(d, k, None).
DictGet(d, k, default) == IF k \in DOMAIN d THEN d[k] ELSE default

EffectiveIdVerbatim(endpoint_id, default_endpoint_id) == endpoint_id

\* `if not endpoint_id: endpoint_id = self.default_endpoint_id`
EffectiveId(endpoint_id, default_endpoint_id) ==
  IF endpoint_id = "" THEN default_endpoint_id ELSE endpoint_id

RECURSIVE LookUp(_, _, _, _, _)
\* The loop over self.endpoints from entry k on: the first entry whose id
\* equals `id` gives its url and api_key, the client's own where the entry
\* has none; the client's base_url and api_key after the loop.
LookUp(endpoints, k, id, base_url, api_key) ==
  IF k > Len(endpoints) THEN <<base_url, api_key>>
  ELSE IF DictGet(endpoints[k], "id", None) = id
       THEN <<DictGet(endpoints[k], "url", base_url),
              DictGet(endpoints[k], "api_key", api_key)>>
       ELSE LookUp(endpoints, k + 1, id, base_url, api_key)

\* get_endpoint_config(endpoint_id) on a client with these fields.
GetEndpointConfig(endpoint_id, endpoints, default_endpoint_id, base_url, api_key) ==
  LookUp(endpoints, 1, EffectiveId(endpoint_id, default_endpoint_id),
         base_url, api_key)

\* The resolver as a call of the client reaches it: with the endpoint_id
\* it was given (a slot's custom_endpoint); the slot's custom_api_token is
\* no argument of the resolver.
ResolveEndpoint(endpoints, default_endpoint_id, endpoint_id, custom_api_token) ==
  /\ FnIdle
  /\ app' = [fn |-> "get_endpoint_config", endpoints |-> endpoints,
             default_endpoint_id |-> default_endpoint_id,
             endpoint_id |-> endpoint_id,
             custom_api_token |-> custom_api_token,
             out |-> GetEndpointConfig(endpoint_id, endpoints,
                                       default_endpoint_id, BaseUrl, ApiKey)]
  /\ UNCHANGED fnFrame

\* C27: an override that is a full URL is used verbatim as the base URL,
\* with the override credential when one is given and the default
\* credential otherwise.
C27_FullUrlVerbatim ==
  app.fn = "get_endpoint_config" /\ app.endpoint_id \in FullUrls =>
    app.out = <<app.endpoint_id,
                IF app.custom_api_token # "" THEN app.custom_api_token
                ELSE ApiKey>>

\* The entries of `endpoints` whose id is `id`.
Known(endpoints, id) ==
  { k \in DOMAIN endpoints :
      "id" \in DOMAIN endpoints[k] /\ endpoints[k].id = id }

\* What an id resolves to: the url and credential of the first endpoint
\* with that id, the default base URL and credential standing in for what
\* the endpoint lacks and for an id no endpoint has.
ResolvesTo(endpoints, id) ==
  IF Known(endpoints, id) = {} THEN <<BaseUrl, ApiKey>>
  ELSE LET k == CHOOSE j \in Known(endpoints, id) :
                  \A l \in Known(endpoints, id) : j <= l
       IN <<IF "url" \in DOMAIN endpoints[k] THEN endpoints[k].url
            ELSE BaseUrl,
            IF "api_key" \in DOMAIN endpoints[k] THEN endpoints[k].api_key
            ELSE ApiKey>>

\* C28: the resolver always returns a pair: for an empty override what the
\* default endpoint id resolves to, for a known id that endpoint's url and
\* credential, for an unknown id the default base URL and credential.
C28_ResolverTotal ==
  app.fn = "get_endpoint_config" =>
    /\ Len(app.out) = 2
    /\ app.endpoint_id = "" =>
         app.out = ResolvesTo(app.endpoints, app.default_endpoint_id)
    /\ app.endpoint_id # "" =>
         app.out = ResolvesTo(app.endpoints, app.endpoint_id)
    /\ app.endpoint_id # "" /\ Known(app.endpoints, app.endpoint_id) = {} =>
         app.out = <<BaseUrl, ApiKey>>

\* C28's case: an empty override on a client whose default endpoint id
\* names the second configured endpoint.
C28_Witness ==
  /\ app.fn = "get_endpoint_config"
  /\ app.endpoint_id = "" /\ app.default_endpoint_id = "e1"
  /\ Len(app.endpoints) = 2
  /\ Known(app.endpoints, "e1") = {2}
  /\ app.out = <<"https://e1/v1", "K1">>

(* ---- the model listing (client.py, list_models) ---- *)

\* The candidate URLs, in the order of the list: f"{base_url}/models" and
\* f"{base_url}/models/list".
Candidates == <<BaseUrl \o "/models", BaseUrl \o "/models/list">>

\* Lists found under "data" or "models": entries with an id, and one whose
\* entry has none.
ModelEntryLists ==
  { <<>>, <<[id |-> "m1"]>>, <<[id |-> "m1"], [id |-> "m2"]>>,
    <<[name |-> "m1"]>> }

\* JSON bodies of a 2xx answer, by the keys "data" and "models" they hold;
\* the body without either stands for {} and for a JSON array too.
ListBodies ==
  { <<>> }
    \cup { [data |-> l] : l \in ModelEntryLists }
    \cup { [models |-> l] : l \in ModelEntryLists }
    \cup { [data |-> l, models |-> m] :
             l \in ModelEntryLists, m \in {<<[id |-> "x1"]>>} }

\* What one candidate answers: 404, another error status with its body, a
\* failure of the GET itself, or a 2xx whose body is JSON (`json`) or not
\* (not JSON at all, or JSON null or a number, on which `in` raises).
Answers ==
  { [kind |-> "404"], [kind |-> "transport"] }
    \cup { [kind |-> "status", status |-> st, text |-> "denied"] :
             st \in {400, 500} }
    \cup { [kind |-> "ok", json |-> TRUE, body |-> b] : b \in ListBodies }
    \cup { [kind |-> "ok", json |-> FALSE, body |-> <<>>] }

ListKeyModelsFirst(body) ==
  IF "models" \in DOMAIN body THEN "models"
  ELSE IF "data" \in DOMAIN body THEN "data" ELSE None

\* `if "data" in data: ... elif "models" in data: ... else: models = []`
ListKey(body) ==
  IF "data" \in DOMAIN body THEN "data"
  ELSE IF "models" \in DOMAIN body THEN "models" ELSE None

\* [m["id"] for m in entries], when every entry has an id.
EntryIds(entries) == [k \in 1..Len(entries) |-> entries[k].id]

\* One pass of the loop body for an answer: "continue", or the pair the
\* function returns.
ListStep(answer) ==
  CASE answer.kind = "transport" -> [to |-> "continue"]
    [] answer.kind = "404" -> [to |-> "continue"]
    [] answer.kind = "status" ->
         [to |-> "return", models |-> <<>>,
          error |-> "HTTP " \o StatusText(answer.status) \o ": "
                      \o answer.text]
    [] answer.kind = "ok" ->
         IF ~answer.json THEN [to |-> "continue"]
         ELSE IF ListKey(answer.body) = None
              THEN [to |-> "return", models |-> <<>>, error |-> None]
         ELSE LET entries == answer.body[ListKey(answer.body)]
              IN IF \E k \in 1..Len(entries) : "id" \notin DOMAIN entries[k]
                 THEN [to |-> "continue"]
                 ELSE [to |-> "return", models |-> EntryIds(entries),
                       error |-> None]

ErrCouldNotFetch == "Could not fetch models from any endpoint"

RECURSIVE ListLoop(_, _)
\* The loop from candidate k on: the first pass that returns ends it,
\* `queried` counting the candidates a GET went to.
ListLoop(answers, k) ==
  IF k > Len(answers)
  THEN [models |-> <<>>, error |-> ErrCouldNotFetch, queried |-> k - 1]
  ELSE LET step == ListStep(answers[k])
       IN IF step.to = "return"
          THEN [models |-> step.models, error |-> step.error, queried |-> k]
          ELSE ListLoop(answers, k + 1)

\* list_models(), the candidates answering `first` and `second`.
ListModels(first, second) ==
  /\ FnIdle
  /\ app' = [fn |-> "list_models", answers |-> <<first, second>>,
             exc |-> None, out |-> ListLoop(<<first, second>>, 1)]
  /\ UNCHANGED fnFrame

\* The candidates that answered 404 or not at all.
NoAnswer(answer) == answer.kind \in {"404", "transport"}

\* C29 as stated: list_models never raises; the first candidate answering
\* with a non-404 success ends the listing with its ids and no error, a
\* non-404 error status ends it with ([], that error), and when neither
\* candidate answers the result is ([], the could-not-fetch message).
C29_FirstSuccessWins ==
  app.fn = "list_models" =>
    LET a == app.answers
        k == IF ~NoAnswer(a[1]) THEN 1 ELSE IF ~NoAnswer(a[2]) THEN 2 ELSE 0
    IN /\ app.exc = None
       /\ k = 0 => app.out = [models |-> <<>>, error |-> ErrCouldNotFetch,
                              queried |-> 2]
       /\ k # 0 => app.out.queried = k
       /\ k # 0 /\ a[k].kind = "ok" => app.out.error = None
       /\ k # 0 /\ a[k].kind = "status" =>
            /\ app.out.models = <<>>
            /\ app.out.error = "HTTP " \o StatusText(a[k].status) \o ": "
                                 \o a[k].text

\* A 2xx answer the listing can be read from: a JSON body whose list,
\* under "data" or else under "models", has an id in every entry, or which
\* has neither key.
Readable(answer) ==
  /\ answer.kind = "ok" /\ answer.json
  /\ "data" \in DOMAIN answer.body =>
       \A k \in 1..Len(answer.body.data) :
         "id" \in DOMAIN answer.body.data[k]
  /\ "data" \notin DOMAIN answer.body /\ "models" \in DOMAIN answer.body =>
       \A k \in 1..Len(answer.body.models) :
         "id" \in DOMAIN answer.body.models[k]

\* The ids a readable answer lists.
ListedIds(answer) ==
  IF "data" \in DOMAIN answer.body THEN EntryIds(answer.body.data)
  ELSE IF "models" \in DOMAIN answer.body THEN EntryIds(answer.body.models)
  ELSE <<>>

\* A candidate the listing passes over: 404, no answer, or a 2xx it cannot
\* read.
PassedOver(answer) ==
  NoAnswer(answer) \/ (answer.kind = "ok" /\ ~Readable(answer))

\* C29, amended: list_models never raises and queries the candidates in
\* order; a candidate that answers 404, does not answer, or answers a 2xx
\* that cannot be read is passed over; the first other candidate ends the
\* listing, a readable 2xx with its ids and no error, an error status with
\* ([], "HTTP <status>: <body>"); when both are passed over the result is
\* ([], the could-not-fetch message).
C29_ListModels ==
  app.fn = "list_models" =>
    LET a == app.answers
        k == IF ~PassedOver(a[1]) THEN 1
             ELSE IF ~PassedOver(a[2]) THEN 2 ELSE 0
    IN /\ app.exc = None
       /\ k = 0 => app.out = [models |-> <<>>, error |-> ErrCouldNotFetch,
                              queried |-> 2]
       /\ k # 0 /\ a[k].kind = "ok" =>
            app.out = [models |-> ListedIds(a[k]), error |-> None,
                       queried |-> k]
       /\ k # 0 /\ a[k].kind = "status" =>
            app.out = [models |-> <<>>,
                       error |-> "HTTP " \o StatusText(a[k].status) \o ": "
                                   \o a[k].text,
                       queried |-> k]

\* C29's case: /models answers 200 with a body that is no JSON, and the
\* ids come from /models/list.
C29_Witness ==
  /\ app.fn = "list_models"
  /\ app.answers[1].kind = "ok" /\ ~app.answers[1].json
  /\ app.answers[2].kind = "ok" /\ app.answers[2].json
  /\ app.out = [models |-> <<"m1", "m2">>, error |-> None, queried |-> 2]

(* ---- the judge prompt from a template (evaluator.py) ---- *)

\* Most parts of one template.
MaxParts == 2

\* The keyword arguments of user_prompt_template.format(...).
KnownFields == {"system_prompt", "user_prompt", "responses"}

\* Parts of a template: literal text, a replacement field {name} with a
\* known or another name, and a brace that opens no field.
TemplateParts ==
  { [kind |-> "text", v |-> "Rank:"], [kind |-> "brace", v |-> "{"] }
    \cup { [kind |-> "field", v |-> n] : n \in KnownFields \cup {"criteria"} }

\* Templates; the one without parts is "", for which no template counts
\* as supplied.
Templates == UNION { [1..n -> TemplateParts] : n \in 0..MaxParts }

\* Prompt texts, one of them with braces in it.
PromptTexts == {"u", "{criteria} {"}

ExcKeyError == "KeyError"

ExcValueError == "Single '{' encountered in format string"

FormatFieldLenient(name, kw) ==
  [exc |-> None, item |-> IF name \in DOMAIN kw THEN kw[name] ELSE ""]

\* One replacement field of str.format: the keyword's value, put in as it
\* is and not read as a template again, or KeyError for a name that is no
\* keyword.
FormatField(name, kw) ==
  IF name \in DOMAIN kw THEN [exc |-> None, item |-> kw[name]]
  ELSE [exc |-> ExcKeyError, item |-> ""]

RECURSIVE Format(_, _, _)
\* str.format over the parts of the template up to part n, left to right:
\* the items of the text produced, or the first exception.
Format(template, n, kw) ==
  IF n = 0 THEN [exc |-> None, out |-> <<>>]
  ELSE LET before == Format(template, n - 1, kw)
           part == template[n]
       IN IF before.exc # None THEN before
          ELSE IF part.kind = "brace"
               THEN [exc |-> ExcValueError, out |-> <<>>]
          ELSE IF part.kind = "text"
               THEN [exc |-> None, out |-> Append(before.out, part.v)]
          ELSE LET f == FormatField(part.v, kw)
               IN IF f.exc # None THEN [exc |-> f.exc, out |-> <<>>]
                  ELSE [exc |-> None, out |-> Append(before.out, f.item)]

RECURSIVE TemplateBlocks(_, _)
\* The loop of the template branch over enumerate(responses, 1), up to
\* entry n: the same statements as the default branch's.
TemplateBlocks(responses, n) ==
  IF n = 0 THEN <<>>
  ELSE IF Truthy(responses[n].content)
       THEN Append(TemplateBlocks(responses, n - 1),
                   [number |-> n, model |-> responses[n].model,
                    content |-> responses[n].content])
       ELSE TemplateBlocks(responses, n - 1)

\* _build_eval_prompt with a template: `if user_prompt_template:` takes the
\* template branch, whose blocks go in under "responses"; "" takes the
\* default branch, the fixed text around the prompts and the blocks.
\* `blocks` are the blocks of the branch taken, `other` those of the
\* other branch for the same results.
BuildFromTemplate(template, system_prompt, user_prompt, rs) ==
  /\ FnIdle
  /\ LET tb == TemplateBlocks(rs, Len(rs))
         db == BuildEvalPromptBlocks(rs)
         kw == [system_prompt |-> <<system_prompt>>,
                user_prompt |-> <<user_prompt>>, responses |-> tb]
         f == Format(template, Len(template), kw)
     IN app' = [fn |-> "build_from_template", template |-> template,
                system_prompt |-> system_prompt,
                user_prompt |-> user_prompt, results |-> rs,
                exc |-> IF template # <<>> THEN f.exc ELSE None,
                out |-> IF template # <<>> THEN f.out
                        ELSE <<"head", <<system_prompt>>, <<user_prompt>>,
                               db, "tail">>,
                blocks |-> IF template # <<>> THEN tb ELSE db,
                other |-> IF template # <<>> THEN db ELSE tb]
  /\ UNCHANGED fnFrame

\* The fields a template names.
FieldsOf(template) ==
  { template[k].v : k \in { j \in DOMAIN template :
                              template[j].kind = "field" } }

\* A template of texts and replacement fields only.
WellFormed(template) ==
  \A k \in DOMAIN template : template[k].kind \in {"text", "field"}

\* C31: with a template supplied, a template that names a placeholder
\* other than system_prompt, user_prompt and responses makes the call
\* raise; a template of texts and the three known placeholders produces
\* its prompt, each placeholder replaced by its value as it is, whatever
\* braces the prompt and response texts hold.
C31_UnknownPlaceholder ==
  app.fn = "build_from_template" /\ app.template # <<>> =>
    /\ ~(FieldsOf(app.template) \subseteq KnownFields) => app.exc # None
    /\ WellFormed(app.template) /\ FieldsOf(app.template) \subseteq KnownFields =>
         /\ app.exc = None
         /\ Len(app.out) = Len(app.template)
         /\ \A k \in DOMAIN app.template :
              app.out[k] =
                CASE app.template[k].kind = "text" -> app.template[k].v
                  [] app.template[k].v = "system_prompt" ->
                       <<app.system_prompt>>
                  [] app.template[k].v = "user_prompt" -> <<app.user_prompt>>
                  [] app.template[k].v = "responses" -> app.blocks

\* C31's case: a template naming {responses} and {criteria} has failed
\* with KeyError on a user prompt that has braces in it.
C31_Witness ==
  /\ app.fn = "build_from_template"
  /\ FieldsOf(app.template) = {"responses", "criteria"}
  /\ app.user_prompt = "{criteria} {"
  /\ Len(app.results) = 2
  /\ app.exc = ExcKeyError

\* C39: the response blocks are numbered 1..k in input order, k being the
\* number of results included, so that a skipped result leaves no gap; the
\* template and the default branch emit the same blocks for the same
\* results.
C39_ConsecutiveNumbers ==
  app.fn = "build_from_template" /\ app.exc = None =>
    /\ \A k \in 1..Len(app.blocks) : app.blocks[k].number = k
    /\ app.blocks = app.other

(* ---- FnSpec ---- *)

\* The applications, one per behaviour: nothing is applied after the first.
FnApply ==
  \/ \E stream \in BOOLEAN, read \in BOOLEAN, status \in StatusCodes,
        body \in ErrorBodies, endpoint \in Endpoints :
          StatusError(stream, read, status, body, endpoint)
  \/ \E a \in PayloadArgs : BuildPayload(a)
  \/ \E configs \in ConfigLists, user_prompt \in UserPrompts, cb \in BOOLEAN :
       \E i \in DOMAIN configs : RunModelPrompt(configs, i, user_prompt, cb)
  \/ \E endpoints \in EndpointLists, default_endpoint_id \in DefaultIds,
        endpoint_id \in EndpointIds, custom_api_token \in ApiTokens :
          ResolveEndpoint(endpoints, default_endpoint_id, endpoint_id,
                          custom_api_token)
  \/ \E first \in Answers, second \in Answers : ListModels(first, second)
  \/ \E template \in Templates, user_prompt \in PromptTexts,
        rs \in ResultLists :
          BuildFromTemplate(template, "s", user_prompt, rs)
  \/ \E rs \in ResultLists, gui \in BOOLEAN : BuildEvalPrompt(rs, gui)
  \/ \E stream \in BOOLEAN, responses \in ResultLists,
        result \in JudgeResults, raised \in {None, ExcJoin} :
          Evaluate(stream, responses, result, raised)

FnNext == FnIdle /\ FnApply

FnSpec == Init /\ [][FnNext]_vars

====
